---------------------------- MODULE Spec2Model ----------------------------
(***************************************************************************)
(* A model of dspy_code/rag/search.py: the CodeSearch orchestrator with    *)
(* its TF-IDF (semantic), keyword and hybrid strategies, the combiner, the *)
(* re-ranker and the query cache.                                          *)
(*                                                                         *)
(* Strings are sequences of one-character strings, so that lower(),        *)
(* substring tests (Python's `in`) and re.findall(r"\w+") are computed     *)
(* character by character.  Scores are exact fixed-point numbers (a whole  *)
(* part and a fraction in units of 1 / FracUnits), so that sums, the       *)
(* combiner's average and the boosts are computed without rounding.  The   *)
(* similarities that scikit-learn computes are an input of the model       *)
(* (tfidf_matrix).                                                         *)
(***************************************************************************)
EXTENDS Integers, Sequences, FiniteSets, TLC

VARIABLES
    index,          \* self.index.elements: the ordered CodeElement sequence
    use_tfidf,      \* self.use_tfidf
    vectorizer,     \* self.vectorizer: "None", "unfitted" or "fitted"
    tfidf_matrix,   \* self.tfidf_matrix: per query, the similarity to each document
    element_texts,  \* self.element_texts
    query_cache,    \* self.query_cache: cache key -> result list
    op,             \* the last public call: its name and arguments
    ret,            \* the list the last call returned
    alias,          \* the cache key whose list object ret is, or NoKey
    invoked,        \* the scorer / combiner / ranker methods the last call ran
    arg,            \* the list the caller handed to the last rank_results call
    passes,         \* how many boost passes the list ret has been through
    cache_passes,   \* the same count for each cached list
    np_argsort,     \* what np.argsort returns for the similarity vector
    failing,        \* the queries on which the vector query raises
    set_order,      \* the iteration order of a Python set of query terms
    raised,         \* the exception the last call let through, or "none"
    in_flight       \* the hybrid_search call a concurrent caller is inside

vars == <<index, use_tfidf, vectorizer, tfidf_matrix, element_texts,
          query_cache, op, ret, alias, invoked, arg, passes, cache_passes,
          np_argsort, failing, set_order, raised, in_flight>>

-----------------------------------------------------------------------------
(* Bounds of the model *)

MaxElems == 2

MaxTopK == 2

MaxTypeElems == 6

MaxListLen == 2

-----------------------------------------------------------------------------
(* Characters and strings *)

UpperCase == {"C", "E", "P"}

LowerOf == [c \in UpperCase |->
              CASE c = "C" -> "c" [] c = "E" -> "e" [] c = "P" -> "p"]

WordChars == {"a","c","d","e","f","g","h","i","l","n","o","p","r","s","t","u",
              "_", "U+0130"} \cup UpperCase

lowerChar(c) == IF c \in UpperCase THEN LowerOf[c] ELSE c

\* LATIN CAPITAL LETTER I WITH DOT ABOVE, the one character str.lower() turns
\* into two: "i" and COMBINING DOT ABOVE
DottedCapitalI == "U+0130"

CombiningDot == "U+0307"

RECURSIVE lowerEach(_)
lowerEach(s) ==
    IF s = <<>> THEN <<>>
    ELSE (IF Head(s) = DottedCapitalI THEN <<"i", CombiningDot>>
          ELSE <<lowerChar(Head(s))>>) \o lowerEach(Tail(s))

\* str.lower()
lower(s) ==
    IF \A i \in DOMAIN s : s[i] # DottedCapitalI
    THEN [i \in 1..Len(s) |-> lowerChar(s[i])]
    ELSE lowerEach(s)

\* Python's `sub in s` on strings
Contains(sub, s) ==
    \E i \in 0..(Len(s) - Len(sub)) : SubSeq(s, i + 1, i + Len(sub)) = sub

\* re.findall(r"\w+", s): the maximal runs of word characters, left to right
RECURSIVE findall_words(_, _, _)
findall_words(s, i, cur) ==
    IF i > Len(s)
    THEN IF cur = <<>> THEN <<>> ELSE <<cur>>
    ELSE IF s[i] \in WordChars
         THEN findall_words(s, i + 1, Append(cur, s[i]))
         ELSE IF cur = <<>>
              THEN findall_words(s, i + 1, <<>>)
              ELSE <<cur>> \o findall_words(s, i + 1, <<>>)

\* " ".join(parts)
RECURSIVE join(_)
join(parts) ==
    IF parts = <<>> THEN <<>>
    ELSE IF Len(parts) = 1 THEN parts[1]
    ELSE parts[1] \o <<" ">> \o join(Tail(parts))

ToSet(s) == {s[i] : i \in DOMAIN s}

stop_words == {
    <<"t","h","e">>, <<"a">>, <<"a","n">>, <<"a","n","d">>, <<"o","r">>,
    <<"b","u","t">>, <<"i","n">>, <<"o","n">>, <<"a","t">>, <<"t","o">>,
    <<"f","o","r">>, <<"o","f">>, <<"w","i","t","h">>, <<"b","y">>,
    <<"f","r","o","m">>, <<"a","s">>, <<"i","s">>, <<"w","a","s">>,
    <<"a","r","e">>, <<"w","e","r","e">>, <<"b","e">>, <<"h","o","w">>,
    <<"d","o">>, <<"d","o","e","s">>, <<"i">>, <<"y","o","u">>,
    <<"u","s","e">>, <<"u","s","i","n","g">>,
    <<"c","r","e","a","t","e">>, <<"m","a","k","e">> }

\* CodeSearch._extract_keywords
_extract_keywords(query) ==
    SelectSeq(findall_words(lower(query), 1, <<>>),
              LAMBDA w : w \notin stop_words /\ Len(w) > 2)

\* CodeSearch._extract_matched_terms
_extract_matched_terms(query, text) ==
    SelectSeq(_extract_keywords(query), LAMBDA kw : Contains(kw, lower(text)))

-----------------------------------------------------------------------------
(* The indexed elements and the queries the model draws from *)

NoDoc == <<>>

ParseConfig ==
    [name      |-> <<"p","a","r","s","e","_","c","o","n","f","i","g">>,
     type      |-> "function",
     codebase  |-> "core",
     signature |-> <<"d","e","f"," ","p","a","r","s","e","_","c","o","n","f",
                     "i","g","(","p","a","t","h",")">>,
     docstring |-> <<"P","a","r","s","e"," ","a"," ","c","o","n","f","i","g",
                     "u","r","a","t","i","o","n"," ","f","i","l","e">>,
     code      |-> <<"r","e","t","u","r","n"," ","l","o","a","d","(","p","a",
                     "t","h",")">>]

ConfigError ==
    [name      |-> <<"C","o","n","f","i","g","E","r","r","o","r">>,
     type      |-> "class",
     codebase  |-> "core",
     signature |-> <<"c","l","a","s","s"," ","C","o","n","f","i","g","E","r",
                     "r","o","r">>,
     docstring |-> NoDoc,
     code      |-> <<"p","a","s","s">>]

ConfigClass ==
    [name      |-> <<"C","o","n","f","i","g">>,
     type      |-> "class",
     codebase  |-> "dspy",
     signature |-> <<"c","l","a","s","s"," ","C","o","n","f","i","g">>,
     docstring |-> <<"C","o","n","f","i","g">>,
     code      |-> <<"p","a","s","s">>]

\* a second element with the identity (dspy, Config)
ConfigMethod ==
    [name      |-> <<"C","o","n","f","i","g">>,
     type      |-> "method",
     codebase  |-> "dspy",
     signature |-> <<"d","e","f"," ","C","o","n","f","i","g","(","s","e","l",
                     "f",")">>,
     docstring |-> NoDoc,
     code      |-> <<"r","e","t","u","r","n"," ","s","e","l","f">>]

\* an element whose name is the one character U+0130
DottedI ==
    [name      |-> <<DottedCapitalI>>,
     type      |-> "class",
     codebase  |-> "core",
     signature |-> <<"c","l","a","s","s"," ",DottedCapitalI>>,
     docstring |-> NoDoc,
     code      |-> <<"p","a","s","s">>]

Pool == {ParseConfig, ConfigError, ConfigClass, ConfigMethod}

QConfig == <<"c","o","n","f","i","g">>

QParseConfiguration ==
    <<"p","a","r","s","e"," ","c","o","n","f","i","g","u","r","a","t","i","o","n">>

QStopOnly == <<"u","s","e"," ","t","h","e">>

\* "parse config"
QParseAndConfig == <<"p","a","r","s","e"," ","c","o","n","f","i","g">>

\* a query that repeats a word: "config config"
QRepeated == <<"c","o","n","f","i","g"," ","c","o","n","f","i","g">>

Queries == {QConfig, QParseConfiguration, QStopOnly}

\* the empty string
QEmpty == <<>>

\* "parse_config", a query with an underscore
QUnderscored == ParseConfig.name

\* "go to the": a short word and two stop words
QShortAndStop == <<"g","o"," ","t","o"," ","t","h","e">>

\* the queries the vector backend is asked about
VectorQueries == Queries \cup {QEmpty}

TopKs == 1..MaxTopK

\* all sequences over S of length at most n, and those without repetition
SeqsUpTo(S, n) == UNION {[1..k -> S] : k \in 0..n}

DistinctSeqs(S, n) ==
    {s \in SeqsUpTo(S, n) : \A i, j \in DOMAIN s : i # j => s[i] # s[j]}

-----------------------------------------------------------------------------
(* Scores.  A score is [whole, frac] and stands for whole + frac/FracUnits. *)
(* FracUnits = 2^11 * 5^7 holds exactly every score the model computes:     *)
(* tenths and halves at the start, up to three combiner merges (a division  *)
(* by 4 each) and two boost passes (a denominator of at most 500 each).     *)

FracUnits == (2 * 2 * 2 * 2 * 2 * 2 * 2 * 2 * 2 * 2 * 2) * (5 * 5 * 5 * 5 * 5 * 5 * 5)

Dec(whole, frac) == [whole |-> whole, frac |-> frac]

Zero == Dec(0, 0)

One == Dec(1, 0)

\* n tenths, n halves
Tenths(n) == Dec(n \div 10, (n % 10) * (FracUnits \div 10))

Halves(n) == Dec(n \div 2, (n % 2) * (FracUnits \div 2))

ScoreLt(a, b) == a.whole < b.whole \/ (a.whole = b.whole /\ a.frac < b.frac)

ScoreLeq(a, b) == a = b \/ ScoreLt(a, b)

ScoreAdd(a, b) ==
    Dec(a.whole + b.whole + ((a.frac + b.frac) \div FracUnits),
        (a.frac + b.frac) % FracUnits)

\* a * k for a small natural k
ScoreMul(a, k) ==
    Dec(a.whole * k + ((a.frac * k) \div FracUnits), (a.frac * k) % FracUnits)

\* a / d for a small positive d
ScoreDiv(a, d) ==
    Dec(a.whole \div d, (((a.whole % d) * FracUnits) + a.frac) \div d)

\* a * num / den
ScoreMulDiv(a, num, den) == ScoreDiv(ScoreMul(a, num), den)

\* field weights of the keyword scorer: 3.0, 2.0, 1.5, 0.5
NameWeight == Halves(6)

DocstringWeight == Halves(4)

SignatureWeight == Halves(3)

CodeWeight == Halves(1)

Min(a, b) == IF a <= b THEN a ELSE b

\* s[:k] for a positive k
Take(s, k) == SubSeq(s, 1, Min(k, Len(s)))

Reverse(s) == [i \in 1..Len(s) |-> s[Len(s) + 1 - i]]

\* the number of keywords of the list (repetitions counted) found in the field
CountHits(keywords, field) ==
    Cardinality({i \in DOMAIN keywords : Contains(keywords[i], lower(field))})

\* CodeSearch._score_element_keywords
_score_element_keywords(elem, keywords) ==
    ScoreAdd(
      ScoreAdd(ScoreMul(NameWeight, CountHits(keywords, elem.name)),
               IF elem.docstring # NoDoc
               THEN ScoreMul(DocstringWeight, CountHits(keywords, elem.docstring))
               ELSE Zero),
      ScoreAdd(ScoreMul(SignatureWeight, CountHits(keywords, elem.signature)),
               ScoreMul(CodeWeight, CountHits(keywords, elem.code))))

\* SearchResult(element, score, match_type, matched_terms); element is the
\* position of the referenced CodeElement in the index
SearchResult(i, score, match_type, matched_terms) ==
    [element |-> i, score |-> score, match_type |-> match_type,
     matched_terms |-> matched_terms]

\* an insertion that puts a result before the results of equal score
InsertByScoreUnstable(sorted, x) ==
    LET k == Cardinality({j \in DOMAIN sorted : ScoreLt(x.score, sorted[j].score)})
    IN  SubSeq(sorted, 1, k) \o <<x>> \o SubSeq(sorted, k + 1, Len(sorted))

\* list.sort(key=score, reverse=True): descending and stable
InsertByScore(sorted, x) ==
    LET k == Cardinality({j \in DOMAIN sorted : ScoreLeq(x.score, sorted[j].score)})
    IN  SubSeq(sorted, 1, k) \o <<x>> \o SubSeq(sorted, k + 1, Len(sorted))

RECURSIVE SortByScore(_)
SortByScore(s) ==
    IF s = <<>> THEN <<>>
    ELSE InsertByScore(SortByScore(SubSeq(s, 1, Len(s) - 1)), s[Len(s)])

\* a scoring loop that keeps the elements of score 0 as well
ScoredElementsUnfiltered(ids, keywords, match_type) ==
    [j \in DOMAIN ids |->
        SearchResult(ids[j], _score_element_keywords(index[ids[j]], keywords),
                     match_type, keywords)]

\* the elements of elems (positions ids in the index) that score above 0,
\* in index order
ScoredElements(ids, keywords, match_type) ==
    LET all == [j \in DOMAIN ids |->
                  SearchResult(ids[j],
                               _score_element_keywords(index[ids[j]], keywords),
                               match_type, keywords)]
    IN  SelectSeq(all, LAMBDA r : ScoreLt(Zero, r.score))

\* the positions of the index, in order
AllIds == [i \in 1..Len(index) |-> i]

\* CodeSearch.keyword_search
keyword_search(query, top_k) ==
    LET keywords == _extract_keywords(query)
    IN  IF keywords = <<>> THEN <<>>
        ELSE Take(SortByScore(ScoredElements(AllIds, keywords, "keyword")), top_k)

-----------------------------------------------------------------------------
(* The TF-IDF index *)

\* str.split(sep) for a one-character sep
RECURSIVE split(_, _, _, _)
split(s, sep, i, cur) ==
    IF i > Len(s) THEN <<cur>>
    ELSE IF s[i] = sep
         THEN <<cur>> \o split(s, sep, i + 1, <<>>)
         ELSE split(s, sep, i + 1, Append(cur, s[i]))

\* the text synthesized for one element by _build_tfidf_index
ElementText(elem) ==
    join(<<elem.name>>
         \o (IF elem.docstring # NoDoc THEN <<elem.docstring>> ELSE <<>>)
         \o <<elem.signature>>
         \o Take(split(elem.code, "\n", 1, <<>>), 5))

\* similarities the model draws from: 0, 0.4 and 0.6
SimValues == {Zero, Tenths(4), Tenths(6)}

\* the cosine similarities of a fitted index over n documents: one vector
\* per query
SimTables(n) == {[q \in VectorQueries |-> v] : v \in [1..n -> SimValues]}

\* the permutations of a finite set, as sequences
Perms(S) ==
    {f \in [1..Cardinality(S) -> S] : \A i, j \in 1..Cardinality(S) :
                                          i # j => f[i] # f[j]}

\* np.argsort(similarities): the orders that are ascending in similarity;
\* the default sort kind is not stable, so equal values come in any order
Argsorts(sims) ==
    {p \in Perms(DOMAIN sims) :
        \A i, j \in DOMAIN p : i < j => ScoreLeq(sims[p[i]], sims[p[j]])}

\* a semantic search that answers a failed vector query with no results
semantic_search_empty_on_failure(query, top_k) ==
    IF ~use_tfidf \/ vectorizer = "None"
    THEN keyword_search(query, top_k)
    ELSE IF query \in failing
    THEN <<>>
    ELSE LET similarities == tfidf_matrix[query]
             top_indices  == Take(Reverse(np_argsort[query]), top_k)
             hits == SelectSeq(top_indices,
                               LAMBDA idx : ScoreLt(Zero, similarities[idx]))
         IN  [j \in DOMAIN hits |->
                SearchResult(hits[j], similarities[hits[j]], "semantic",
                             _extract_matched_terms(query, element_texts[hits[j]]))]

\* a semantic search that keeps the hits of similarity 0
semantic_search_keeping_zero(query, top_k) ==
    IF ~use_tfidf \/ vectorizer = "None"
    THEN keyword_search(query, top_k)
    ELSE IF query \in failing
    THEN keyword_search(query, top_k)
    ELSE LET similarities == tfidf_matrix[query]
             hits == Take(Reverse(np_argsort[query]), top_k)
         IN  [j \in DOMAIN hits |->
                SearchResult(hits[j], similarities[hits[j]], "semantic",
                             _extract_matched_terms(query, element_texts[hits[j]]))]

\* CodeSearch.semantic_search
semantic_search(query, top_k) ==
    IF ~use_tfidf \/ vectorizer = "None"
    THEN keyword_search(query, top_k)
    ELSE IF query \in failing
    THEN keyword_search(query, top_k)
    ELSE LET similarities == tfidf_matrix[query]
             top_indices  == Take(Reverse(np_argsort[query]), top_k)
             hits == SelectSeq(top_indices,
                               LAMBDA idx : ScoreLt(Zero, similarities[idx]))
         IN  [j \in DOMAIN hits |->
                SearchResult(hits[j], similarities[hits[j]], "semantic",
                             _extract_matched_terms(query, element_texts[hits[j]]))]

-----------------------------------------------------------------------------
(* Combiner and re-ranker *)

\* the dict key f"{codebase}:{name}" of a result
Key(r) == <<index[r.element].codebase, index[r.element].name>>

\* list(set(terms)): the distinct terms, in the set's iteration order
ListOfSet(terms) == SelectSeq(set_order, LAMBDA t : t \in ToSet(terms))

\* combined_dict[key] = result
DictPut(d, r) ==
    IF \E i \in DOMAIN d : Key(d[i]) = Key(r)
    THEN [i \in DOMAIN d |-> IF Key(d[i]) = Key(r) THEN r ELSE d[i]]
    ELSE Append(d, r)

\* a merge that takes the plain average of the two scores
MergedByAverage(existing, result) ==
    [existing EXCEPT
        !.score = ScoreDiv(ScoreAdd(existing.score, result.score), 2),
        !.match_type = "hybrid",
        !.matched_terms = ListOfSet(existing.matched_terms \o result.matched_terms)]

\* the merge of a keyword result into the entry already in the dict:
\* (existing.score + result.score) / 2 * 1.5
Merged(existing, result) ==
    [existing EXCEPT
        !.score = ScoreMulDiv(ScoreDiv(ScoreAdd(existing.score, result.score), 2),
                              3, 2),
        !.match_type = "hybrid",
        !.matched_terms = ListOfSet(existing.matched_terms \o result.matched_terms)]

DictMerge(d, r) ==
    IF \E i \in DOMAIN d : Key(d[i]) = Key(r)
    THEN [i \in DOMAIN d |-> IF Key(d[i]) = Key(r) THEN Merged(d[i], r) ELSE d[i]]
    ELSE Append(d, r)

RECURSIVE AddSemantic(_, _)
AddSemantic(d, semantic) ==
    IF semantic = <<>> THEN d
    ELSE AddSemantic(DictPut(d, Head(semantic)), Tail(semantic))

RECURSIVE AddKeyword(_, _)
AddKeyword(d, keyword) ==
    IF keyword = <<>> THEN d
    ELSE AddKeyword(DictMerge(d, Head(keyword)), Tail(keyword))

\* CodeSearch._combine_results: the dict's values in insertion order
_combine_results(semantic, keyword) ==
    AddKeyword(AddSemantic(<<>>, semantic), keyword)

\* a boost in which an exact name match earns the substring factor as well
BoostedBySubstringToo(r, query) ==
    LET elem == index[r.element]
        query_lower == lower(query)
        s0 == IF query_lower = lower(elem.name) THEN ScoreMul(r.score, 2)
              ELSE r.score
        s1 == IF Contains(query_lower, lower(elem.name))
              THEN ScoreMulDiv(s0, 3, 2) ELSE s0
        s2 == IF elem.docstring # NoDoc
                 /\ Contains(query_lower, lower(elem.docstring))
              THEN ScoreMulDiv(s1, 13, 10) ELSE s1
        s3 == IF elem.type \in {"class", "function"}
              THEN ScoreMulDiv(s2, 6, 5) ELSE s2
        s4 == IF elem.codebase \in {"dspy", "dspy_cli"}
              THEN ScoreMulDiv(s3, 11, 10) ELSE s3
    IN  [r EXCEPT !.score = s4]

\* result.score *= boost, for one result of rank_results
Boosted(r, query) ==
    LET elem == index[r.element]
        query_lower == lower(query)
        s1 == IF query_lower = lower(elem.name) THEN ScoreMul(r.score, 2)
              ELSE IF Contains(query_lower, lower(elem.name))
                   THEN ScoreMulDiv(r.score, 3, 2)
                   ELSE r.score
        s2 == IF elem.docstring # NoDoc
                 /\ Contains(query_lower, lower(elem.docstring))
              THEN ScoreMulDiv(s1, 13, 10) ELSE s1
        s3 == IF elem.type \in {"class", "function"}
              THEN ScoreMulDiv(s2, 6, 5) ELSE s2
        s4 == IF elem.codebase \in {"dspy", "dspy_cli"}
              THEN ScoreMulDiv(s3, 11, 10) ELSE s3
    IN  [r EXCEPT !.score = s4]

\* a re-ranker that boosts the scores and leaves the list unsorted
rank_results_unsorted(results, query) ==
    [i \in DOMAIN results |-> Boosted(results[i], query)]

\* CodeSearch.rank_results
rank_results(results, query) ==
    SortByScore([i \in DOMAIN results |-> Boosted(results[i], query)])

-----------------------------------------------------------------------------
(* Lookups by type *)

DefaultTopK == 5

\* the positions of the elements of the given type, in index order
TypedIds(element_type) ==
    SelectSeq(AllIds, LAMBDA i : index[i].type = element_type)

\* a lookup by type that does not truncate the unqueried result
search_by_type_all(element_type, query, top_k) ==
    LET typed_elements == SelectSeq(AllIds, LAMBDA i : index[i].type = element_type)
    IN  IF query = <<>>
        THEN [j \in DOMAIN typed_elements |->
                SearchResult(typed_elements[j], One, "type", <<>>)]
        ELSE Take(SortByScore(ScoredElements(typed_elements,
                                             _extract_keywords(query), "type")),
                  top_k)

\* a lookup by type that scores the elements of every type
search_by_type_any(element_type, query, top_k) ==
    LET typed_elements == TypedIds(element_type)
    IN  IF query = <<>>
        THEN [j \in DOMAIN Take(typed_elements, top_k) |->
                SearchResult(typed_elements[j], One, "type", <<>>)]
        ELSE Take(SortByScore(ScoredElements(AllIds,
                                             _extract_keywords(query), "type")),
                  top_k)

\* CodeSearch.search_by_type; NoQuery stands for None and for ""
search_by_type(element_type, query, top_k) ==
    LET typed_elements == TypedIds(element_type)
    IN  IF query = <<>>
        THEN [j \in DOMAIN Take(typed_elements, top_k) |->
                SearchResult(typed_elements[j], One, "type", <<>>)]
        ELSE Take(SortByScore(ScoredElements(typed_elements,
                                             _extract_keywords(query), "type")),
                  top_k)

\* a lookup by codebase that does not truncate the unqueried result
search_by_codebase_all(codebase, query, top_k) ==
    LET codebase_elements ==
            SelectSeq(AllIds, LAMBDA i : index[i].codebase = codebase)
    IN  IF query = <<>>
        THEN [j \in DOMAIN codebase_elements |->
                SearchResult(codebase_elements[j], One, "codebase", <<>>)]
        ELSE Take(SortByScore(ScoredElements(codebase_elements,
                                             _extract_keywords(query), "codebase")),
                  top_k)

\* CodeSearch.search_by_codebase; NoQuery stands for None and for ""
search_by_codebase(codebase, query, top_k) ==
    LET codebase_elements ==
            SelectSeq(AllIds, LAMBDA i : index[i].codebase = codebase)
    IN  IF query = <<>>
        THEN [j \in DOMAIN Take(codebase_elements, top_k) |->
                SearchResult(codebase_elements[j], One, "codebase", <<>>)]
        ELSE Take(SortByScore(ScoredElements(codebase_elements,
                                             _extract_keywords(query), "codebase")),
                  top_k)

-----------------------------------------------------------------------------
(* Lookup by name *)

\* the test that selects an element in search_by_name
NameMatches(name, exact, elem) ==
    IF exact THEN lower(elem.name) = lower(name)
    ELSE Contains(lower(name), lower(elem.name))

\* len(name) / len(elem.name)
LenRatio(name, elem) == ScoreDiv(Dec(Len(name), 0), Len(elem.name))

\* the division raises when a selected element has an empty name
NameRaises(name, exact) ==
    IF ~exact /\ \E i \in DOMAIN index :
                    NameMatches(name, exact, index[i]) /\ Len(index[i].name) = 0
    THEN "ZeroDivisionError" ELSE "none"

\* a lookup by name in which exact mode accepts a substring match
search_by_name_substring(name, exact) ==
    LET hits == SelectSeq(AllIds, LAMBDA i : NameMatches(name, FALSE, index[i]))
    IN  SortByScore([j \in DOMAIN hits |->
                       SearchResult(hits[j],
                                    IF exact THEN One
                                    ELSE LenRatio(name, index[hits[j]]),
                                    IF exact THEN "exact" ELSE "name",
                                    <<name>>)])

\* CodeSearch.search_by_name, when the division does not raise
search_by_name(name, exact) ==
    LET hits == SelectSeq(AllIds, LAMBDA i : NameMatches(name, exact, index[i]))
    IN  SortByScore([j \in DOMAIN hits |->
                       SearchResult(hits[j],
                                    IF exact THEN One
                                    ELSE LenRatio(name, index[hits[j]]),
                                    IF exact THEN "exact" ELSE "name",
                                    <<name>>)])

-----------------------------------------------------------------------------
(* The orchestrator *)

NoKey == <<>>

NoQuery == <<>>

\* a public call: the method, its query (or name) argument, its top_k and
\* its element_type, codebase or exact argument
Call(name, query, top_k, filter) ==
    [name |-> name, query |-> query, top_k |-> top_k, filter |-> filter]

\* cache_key = f"hybrid:{query}:{top_k}"
CacheKey(query, top_k) == <<query, top_k>>

\* a membership test that never finds the key
CacheHitNever(key) == FALSE

\* `cache_key in self.query_cache`
CacheHit(key) == key \in DOMAIN query_cache

\* d[key] = value on a dict
DictSet(d, key, value) ==
    [k \in DOMAIN d \cup {key} |-> IF k = key THEN value ELSE d[k]]

\* a hybrid search that asks each strategy for top_k candidates only
HybridResultsFewCandidates(query, top_k) ==
    IF use_tfidf
    THEN Take(rank_results(_combine_results(semantic_search(query, top_k),
                                            keyword_search(query, top_k)),
                           query),
              top_k)
    ELSE keyword_search(query, top_k)

\* what hybrid_search computes on a cache miss
HybridResults(query, top_k) ==
    IF use_tfidf
    THEN Take(rank_results(_combine_results(semantic_search(query, top_k * 2),
                                            keyword_search(query, top_k * 2)),
                           query),
              top_k)
    ELSE keyword_search(query, top_k)

\* the methods a keyword_search call runs: the scoring loop is reached when
\* the query has a keyword, and scores each element of the index
KeywordInvokes(query) ==
    IF _extract_keywords(query) # <<>> /\ index # <<>>
    THEN {"keyword_search", "_score_element_keywords"}
    ELSE {"keyword_search"}

\* the methods a hybrid_search miss runs
HybridInvokes(query) ==
    IF use_tfidf
    THEN {"semantic_search", "_combine_results", "rank_results"}
            \cup KeywordInvokes(query)
    ELSE KeywordInvokes(query)

\* the terms of all the queries, and the orders a set of them can iterate in
AllTerms == UNION {ToSet(_extract_keywords(q)) : q \in Queries}

SetOrders == Perms(AllTerms)

\* a construction that keeps use_tfidf set when fitting raises
ConstructKeepingFlag(elems, want, sklearn, matrix, argsort, fail, order) ==
    /\ index = elems
    /\ use_tfidf = (want /\ sklearn)
    /\ vectorizer = IF want /\ sklearn
                    THEN (IF elems # <<>> THEN "fitted" ELSE "unfitted")
                    ELSE "None"
    /\ element_texts = IF want /\ sklearn
                       THEN [i \in DOMAIN elems |-> ElementText(elems[i])]
                       ELSE <<>>
    /\ tfidf_matrix = IF want /\ sklearn /\ elems # <<>> THEN matrix ELSE <<>>
    /\ np_argsort = IF want /\ sklearn /\ elems # <<>> THEN argsort ELSE <<>>
    /\ failing = IF want /\ sklearn /\ elems # <<>> THEN fail ELSE {}
    /\ set_order = order
    /\ query_cache = <<>>
    /\ cache_passes = <<>>

\* CodeSearch.__init__ and _build_tfidf_index for one index: want is the
\* use_tfidf argument, sklearn is SKLEARN_AVAILABLE.  Fitting raises on an
\* empty corpus.
Construct(elems, want, sklearn, matrix, argsort, fail, order) ==
    /\ index = elems
    /\ use_tfidf = (want /\ sklearn /\ elems # <<>>)
    /\ vectorizer = IF want /\ sklearn
                    THEN (IF elems # <<>> THEN "fitted" ELSE "unfitted")
                    ELSE "None"
    /\ element_texts = IF want /\ sklearn
                       THEN [i \in DOMAIN elems |-> ElementText(elems[i])]
                       ELSE <<>>
    /\ tfidf_matrix = IF want /\ sklearn /\ elems # <<>> THEN matrix ELSE <<>>
    /\ np_argsort = IF want /\ sklearn /\ elems # <<>> THEN argsort ELSE <<>>
    /\ failing = IF want /\ sklearn /\ elems # <<>> THEN fail ELSE {}
    /\ set_order = order
    /\ query_cache = <<>>
    /\ cache_passes = <<>>

\* CodeSearch.__init__ when fit_transform raises on the texts of a
\* non-empty index: the texts and the vectorizer object are there, the matrix
\* is not, and the except clause resets use_tfidf
ConstructFitFailed(elems, order) ==
    /\ index = elems
    /\ use_tfidf = FALSE
    /\ vectorizer = "unfitted"
    /\ element_texts = [i \in DOMAIN elems |-> ElementText(elems[i])]
    /\ tfidf_matrix = <<>>
    /\ np_argsort = <<>>
    /\ failing = {}
    /\ set_order = order
    /\ query_cache = <<>>
    /\ cache_passes = <<>>

\* a hybrid_search call in progress: the line it is about to run (190, the
\* read of the cached entry, or 205, the store of the computed results), its
\* arguments and the results it computed; line 0 when no call is in progress
InFlight(line, query, top_k, results) ==
    [line |-> line, query |-> query, top_k |-> top_k, results |-> results]

NotInFlight == InFlight(0, NoQuery, 0, <<>>)

\* no call made yet
Idle ==
    /\ in_flight = NotInFlight
    /\ op = Call("__init__", NoQuery, 0, "")
    /\ ret = <<>>
    /\ alias = NoKey
    /\ invoked = {}
    /\ arg = <<>>
    /\ passes = 0
    /\ raised = "none"

\* the caller holds a list of results of its own making
Holding(results) ==
    /\ in_flight = NotInFlight
    /\ op = Call("input", NoQuery, 0, "")
    /\ ret = results
    /\ alias = NoKey
    /\ invoked = {}
    /\ arg = <<>>
    /\ passes = 0
    /\ raised = "none"

\* the np.argsort results possible for a similarity table
ArgsortsOf(matrix) ==
    {[q \in VectorQueries |-> p] : p \in Argsorts(matrix[QConfig])}

\* a call that leaves the index elements in reverse order
FrameReversingIndex ==
    /\ index' = Reverse(index)
    /\ UNCHANGED <<use_tfidf, vectorizer, tfidf_matrix, element_texts,
                   np_argsort, failing, set_order, in_flight>>

Frame ==
    UNCHANGED <<index, use_tfidf, vectorizer, tfidf_matrix, element_texts,
                np_argsort, failing, set_order, in_flight>>

\* a semantic_search without the except clause
SemanticRaisesUncaught(query) ==
    IF use_tfidf /\ vectorizer # "None" /\ query \in failing
    THEN "Exception" ELSE "none"

\* the exception semantic_search lets through: the except clause catches
\* whatever the vector query raises
SemanticRaises(query) == "none"

SemanticSearch(query, top_k) ==
    /\ ret' = semantic_search(query, top_k)
    /\ raised' = SemanticRaises(query)
    /\ op' = Call("semantic_search", query, top_k, "")
    /\ invoked' = IF use_tfidf /\ vectorizer # "None" /\ query \notin failing
                  THEN {"semantic_search"}
                  ELSE {"semantic_search"} \cup KeywordInvokes(query)
    /\ alias' = NoKey
    /\ arg' = <<>>
    /\ passes' = 0
    /\ UNCHANGED <<query_cache, cache_passes>>
    /\ Frame

KeywordSearch(query, top_k) ==
    /\ ret' = keyword_search(query, top_k)
    /\ raised' = "none"
    /\ op' = Call("keyword_search", query, top_k, "")
    /\ invoked' = KeywordInvokes(query)
    /\ alias' = NoKey
    /\ arg' = <<>>
    /\ passes' = 0
    /\ UNCHANGED <<query_cache, cache_passes>>
    /\ Frame

\* a hybrid_search that stores a result only when it is not empty
HybridSearchSkipsEmpty(query, top_k) ==
    LET cache_key == CacheKey(query, top_k)
    IN  /\ op' = Call("hybrid_search", query, top_k, "")
        /\ arg' = <<>>
        /\ Frame
        /\ raised' = "none"
        /\ IF CacheHit(cache_key)
           THEN /\ ret' = query_cache[cache_key]
                /\ alias' = cache_key
                /\ invoked' = {}
                /\ passes' = cache_passes[cache_key]
                /\ UNCHANGED <<query_cache, cache_passes>>
           ELSE /\ ret' = HybridResults(query, top_k)
                /\ invoked' = HybridInvokes(query)
                /\ passes' = IF use_tfidf THEN 1 ELSE 0
                /\ IF ret' = <<>>
                   THEN /\ alias' = NoKey
                        /\ UNCHANGED <<query_cache, cache_passes>>
                   ELSE /\ alias' = cache_key
                        /\ query_cache' = DictSet(query_cache, cache_key, ret')
                        /\ cache_passes' = DictSet(cache_passes, cache_key, passes')

\* CodeSearch.hybrid_search: the cached list itself is returned on a hit,
\* and the list stored on a miss is the list returned
HybridSearch(query, top_k) ==
    LET cache_key == CacheKey(query, top_k)
    IN  /\ op' = Call("hybrid_search", query, top_k, "")
        /\ alias' = cache_key
        /\ arg' = <<>>
        /\ Frame
        /\ raised' = IF ~CacheHit(cache_key) /\ use_tfidf
                      THEN SemanticRaises(query) ELSE "none"
        /\ IF CacheHit(cache_key)
           THEN /\ ret' = query_cache[cache_key]
                /\ invoked' = {}
                /\ passes' = cache_passes[cache_key]
                /\ UNCHANGED <<query_cache, cache_passes>>
           ELSE /\ ret' = HybridResults(query, top_k)
                /\ query_cache' = DictSet(query_cache, cache_key, ret')
                /\ invoked' = HybridInvokes(query)
                /\ passes' = IF use_tfidf THEN 1 ELSE 0
                /\ cache_passes' = DictSet(cache_passes, cache_key, passes')

SearchByType(element_type, query, top_k) ==
    /\ ret' = search_by_type(element_type, query, top_k)
    /\ raised' = "none"
    /\ op' = Call("search_by_type", query, top_k, element_type)
    /\ invoked' = {}
    /\ alias' = NoKey
    /\ arg' = <<>>
    /\ passes' = 0
    /\ UNCHANGED <<query_cache, cache_passes>>
    /\ Frame

SearchByCodebase(codebase, query, top_k) ==
    /\ ret' = search_by_codebase(codebase, query, top_k)
    /\ raised' = "none"
    /\ op' = Call("search_by_codebase", query, top_k, codebase)
    /\ invoked' = {}
    /\ alias' = NoKey
    /\ arg' = <<>>
    /\ passes' = 0
    /\ UNCHANGED <<query_cache, cache_passes>>
    /\ Frame

\* CodeSearch.search_by_name; the filter field of the call holds exact
SearchByName(name, exact) ==
    /\ raised' = NameRaises(name, exact)
    /\ ret' = IF raised' = "none" THEN search_by_name(name, exact) ELSE <<>>
    /\ op' = Call("search_by_name", name, 0, IF exact THEN "exact" ELSE "substring")
    /\ invoked' = {}
    /\ alias' = NoKey
    /\ arg' = <<>>
    /\ passes' = 0
    /\ UNCHANGED <<query_cache, cache_passes>>
    /\ Frame

\* rank_results called by the user of the class on the list the last call
\* returned: the results are boosted and the list is sorted in place, so a
\* list that is also a cache entry changes in the cache.  A list goes
\* through at most two boost passes.
RankResults(query) ==
    /\ op.name \in {"semantic_search", "keyword_search", "hybrid_search",
                    "rank_results", "input"}
    /\ passes \in {0, 1}
    /\ arg' = ret
    /\ ret' = rank_results(ret, query)
    /\ raised' = "none"
    /\ op' = Call("rank_results", query, 0, "")
    /\ invoked' = {"rank_results"}
    /\ alias' = alias
    /\ passes' = passes + 1
    /\ IF alias # NoKey /\ alias \in DOMAIN query_cache
       THEN /\ query_cache' = [query_cache EXCEPT ![alias] = ret']
            /\ cache_passes' = [cache_passes EXCEPT ![alias] = passes']
       ELSE UNCHANGED <<query_cache, cache_passes>>
    /\ Frame

\* _combine_results called on the two lists the caller holds
CombineResults ==
    /\ op.name = "input"
    /\ Len(arg) = 2
    /\ ret' = _combine_results(arg[1], arg[2])
    /\ raised' = "none"
    /\ op' = Call("_combine_results", NoQuery, 0, "")
    /\ invoked' = {"_combine_results"}
    /\ UNCHANGED <<arg, alias, passes, query_cache, cache_passes>>
    /\ Frame

\* a clear_cache that leaves the entries in place
ClearCacheKeepsEntries ==
    /\ UNCHANGED <<query_cache, cache_passes>>
    /\ raised' = "none"
    /\ op' = Call("clear_cache", NoQuery, 0, "")
    /\ ret' = <<>>
    /\ alias' = NoKey
    /\ invoked' = {}
    /\ arg' = <<>>
    /\ passes' = 0
    /\ Frame

\* CodeSearch.clear_cache
ClearCache ==
    /\ query_cache' = <<>>
    /\ raised' = "none"
    /\ cache_passes' = <<>>
    /\ op' = Call("clear_cache", NoQuery, 0, "")
    /\ ret' = <<>>
    /\ alias' = NoKey
    /\ invoked' = {}
    /\ arg' = <<>>
    /\ passes' = 0
    /\ Frame

-----------------------------------------------------------------------------
(* Spec: one CodeSearch object and any sequence of calls on it *)

MainIndexes == {<<>>, <<ParseConfig, ConfigClass>>}

MainQueries == {QConfig, QStopOnly}

MainTopKs == {1, MaxTopK}

RankQueries == {QConfig}

MainOrder == CHOOSE o \in SetOrders : TRUE

Init ==
    \E elems \in MainIndexes, want \in BOOLEAN, sklearn \in BOOLEAN :
        \E matrix \in SimTables(Len(elems)) :
            \E argsort \in ArgsortsOf(matrix) :
                /\ Construct(elems, want, sklearn, matrix, argsort, {}, MainOrder)
                /\ Idle

Next ==
    \/ \E query \in MainQueries, top_k \in MainTopKs : SemanticSearch(query, top_k)
    \/ \E query \in MainQueries, top_k \in MainTopKs : KeywordSearch(query, top_k)
    \/ \E query \in MainQueries, top_k \in MainTopKs : HybridSearch(query, top_k)
    \/ \E query \in RankQueries : RankResults(query)
    \/ ClearCache
    \/ \E exact \in BOOLEAN : SearchByName(QConfig, exact)
    \/ \E query \in {NoQuery, QConfig} : SearchByType("class", query, MaxTopK)
    \/ \E query \in {NoQuery, QConfig} : SearchByCodebase("dspy", query, MaxTopK)

Spec == Init /\ [][Next]_vars

-----------------------------------------------------------------------------
(* SpecKeyword: keyword_search on every index of distinct elements *)

Indexes == DistinctSeqs(Pool, MaxElems)

InitKeyword ==
    \E elems \in Indexes :
        /\ Construct(elems, FALSE, TRUE, <<>>, <<>>, {}, MainOrder)
        /\ Idle

KeywordQueries ==
    Queries \cup {QRepeated, QParseAndConfig, QUnderscored, QShortAndStop}

NextKeyword ==
    \E query \in KeywordQueries, top_k \in TopKs : KeywordSearch(query, top_k)

SpecKeyword == InitKeyword /\ [][NextKeyword]_vars

-----------------------------------------------------------------------------
(* SpecSemantic: semantic_search for every similarity vector, every order   *)
(* np.argsort can return, with and without a failing vector query           *)

InitSemantic ==
    \E elems \in Indexes, want \in BOOLEAN, fail \in {{}, {QConfig}, Queries} :
        \E matrix \in SimTables(Len(elems)) :
            \E argsort \in ArgsortsOf(matrix) :
                /\ Construct(elems, want, TRUE, matrix, argsort, fail, MainOrder)
                /\ Idle

NextSemantic ==
    \E query \in Queries, top_k \in TopKs : SemanticSearch(query, top_k)

SpecSemantic == InitSemantic /\ [][NextSemantic]_vars

-----------------------------------------------------------------------------
(* SpecHybrid: hybrid_search on an empty cache *)

HybridOrders == {o \in SetOrders : o[1] = QConfig}

InitHybrid ==
    \E elems \in Indexes, want \in BOOLEAN, fail \in {{}, Queries},
       order \in HybridOrders :
        \E matrix \in SimTables(Len(elems)) :
            \E argsort \in ArgsortsOf(matrix) :
                /\ Construct(elems, want, TRUE, matrix, argsort, fail, order)
                /\ Idle

FirstHybridSearch(query, top_k) ==
    /\ query_cache = <<>>
    /\ HybridSearch(query, top_k)

NextHybrid ==
    \/ \E query \in Queries, top_k \in TopKs : FirstHybridSearch(query, top_k)
    \/ ClearCache

SpecHybrid == InitHybrid /\ [][NextHybrid]_vars

-----------------------------------------------------------------------------
(* SpecType: search_by_type on indexes of up to MaxTypeElems elements *)

TypePool == {ConfigClass, ParseConfig}

Types == {"class", "function", "method"}

InitType ==
    \E elems \in SeqsUpTo(TypePool, MaxTypeElems) :
        /\ Construct(elems, FALSE, TRUE, <<>>, <<>>, {}, MainOrder)
        /\ Idle

NextType ==
    \E element_type \in Types, query \in {NoQuery, QConfig},
       top_k \in TopKs \cup {DefaultTopK} :
        SearchByType(element_type, query, top_k)

SpecType == InitType /\ [][NextType]_vars

-----------------------------------------------------------------------------
(* SpecQueries: one call of any of the six query operations, with the      *)
(* empty query and a query of stop words among the queries, and with       *)
(* vector queries that raise                                               *)

AnyQueries == {QConfig, QStopOnly, QEmpty}

InitQueries ==
    \E elems \in MainIndexes, want \in BOOLEAN, fail \in {{}, VectorQueries} :
        \E matrix \in SimTables(Len(elems)) :
            \E argsort \in ArgsortsOf(matrix) :
                /\ Construct(elems, want, TRUE, matrix, argsort, fail, MainOrder)
                /\ Idle

NextQueries ==
    \/ \E query \in AnyQueries, top_k \in TopKs : SemanticSearch(query, top_k)
    \/ \E query \in AnyQueries, top_k \in TopKs : KeywordSearch(query, top_k)
    \/ \E query \in AnyQueries, top_k \in TopKs : FirstHybridSearch(query, top_k)
    \/ ClearCache
    \/ \E name \in AnyQueries, exact \in BOOLEAN : SearchByName(name, exact)
    \/ \E element_type \in Types, query \in AnyQueries, top_k \in TopKs :
          SearchByType(element_type, query, top_k)
    \/ \E codebase \in {"core", "dspy"}, query \in AnyQueries, top_k \in TopKs :
          SearchByCodebase(codebase, query, top_k)

SpecQueries == InitQueries /\ [][NextQueries]_vars

-----------------------------------------------------------------------------
(* SpecName: search_by_name on indexes of named elements.  The names are   *)
(* those whose length ratios to the queries are exact scores.              *)

NamePool == {ParseConfig, ConfigClass, ConfigMethod, DottedI}

\* "Config"
QCapitalConfig == <<"C","o","n","f","i","g">>

\* "i" followed by COMBINING DOT ABOVE, the lowercase of U+0130
QDotted == <<"i", CombiningDot>>

\* "config", "Config", "parse_config", the lowercase of U+0130 and ""
NameQueries == {QConfig, QCapitalConfig, ParseConfig.name, QDotted, <<>>}

InitName ==
    \E elems \in DistinctSeqs(NamePool, MaxElems) :
        /\ Construct(elems, FALSE, TRUE, <<>>, <<>>, {}, MainOrder)
        /\ Idle

NextName ==
    \E name \in NameQueries, exact \in BOOLEAN : SearchByName(name, exact)

SpecName == InitName /\ [][NextName]_vars

-----------------------------------------------------------------------------
(* SpecTopK: the five operations that take a top_k, on indexes that hold    *)
(* two elements of one type or of one codebase                              *)

TopKIndexes ==
    {<<ConfigError, ConfigClass>>, <<ConfigClass, ConfigMethod>>,
     <<ParseConfig, ConfigError>>}

\* no query, "config", "parse configuration" and a query of stop words
LookupQueries == {NoQuery, QConfig, QParseConfiguration, QStopOnly}

InitTopK ==
    \E elems \in TopKIndexes, want \in BOOLEAN :
        \E matrix \in SimTables(Len(elems)) :
            \E argsort \in ArgsortsOf(matrix) :
                /\ Construct(elems, want, TRUE, matrix, argsort, {}, MainOrder)
                /\ Idle

NextTopK ==
    \/ \E top_k \in TopKs : SemanticSearch(QConfig, top_k)
    \/ \E top_k \in TopKs : KeywordSearch(QConfig, top_k)
    \/ \E top_k \in TopKs : FirstHybridSearch(QConfig, top_k)
    \/ ClearCache
    \/ \E element_type \in {"class", "method"}, query \in LookupQueries,
          top_k \in TopKs : SearchByType(element_type, query, top_k)
    \/ \E codebase \in {"core", "dspy"}, query \in LookupQueries,
          top_k \in TopKs : SearchByCodebase(codebase, query, top_k)

SpecTopK == InitTopK /\ [][NextTopK]_vars

-----------------------------------------------------------------------------
(* SpecBoost: rank_results on lists of the caller's making, over an index   *)
(* that holds two elements of equal boost                                   *)

BoostIndex == <<ParseConfig, ConfigError, ConfigClass, ConfigMethod, DottedI>>

BoostPool ==
    {SearchResult(i, s, "keyword", <<QConfig>>) :
        i \in DOMAIN BoostIndex, s \in {Tenths(4), One}}

BoostLists ==
    {l \in SeqsUpTo(BoostPool, MaxListLen) :
        \A i, j \in DOMAIN l : i # j => l[i].element # l[j].element}

InitBoost ==
    /\ Construct(BoostIndex, FALSE, FALSE, <<>>, <<>>, {}, MainOrder)
    /\ \E results \in BoostLists : Holding(results)

NextBoost ==
    \E query \in {QConfig, QParseConfiguration} : RankResults(query)

SpecBoost == InitBoost /\ [][NextBoost]_vars

-----------------------------------------------------------------------------
(* SpecBuild: every outcome of the construction - backend not asked for,    *)
(* scikit-learn missing, index built, fitting failed - followed by any     *)
(* sequence of query operations and clear_cache                            *)

InitBuild ==
    /\ Idle
    /\ \E elems \in MainIndexes :
         \/ \E want \in BOOLEAN, sklearn \in BOOLEAN, fail \in {{}, {QConfig}} :
               \E matrix \in SimTables(Len(elems)) :
                 \E argsort \in ArgsortsOf(matrix) :
                   Construct(elems, want, sklearn, matrix, argsort, fail, MainOrder)
         \/ ConstructFitFailed(elems, MainOrder)

NextBuild ==
    \/ \E top_k \in TopKs : SemanticSearch(QConfig, top_k)
    \/ \E top_k \in TopKs : KeywordSearch(QConfig, top_k)
    \/ \E top_k \in TopKs : HybridSearch(QConfig, top_k)
    \/ ClearCache
    \/ \E exact \in BOOLEAN : SearchByName(QConfig, exact)
    \/ \E query \in {NoQuery, QConfig} : SearchByType("class", query, MaxTopK)
    \/ \E query \in {NoQuery, QConfig} : SearchByCodebase("dspy", query, MaxTopK)

SpecBuild == InitBuild /\ [][NextBuild]_vars

-----------------------------------------------------------------------------
(* SpecConcurrent: one caller inside hybrid_search, statement by statement, *)
(* and another calling clear_cache, on one CodeSearch object with no lock.  *)
(* The membership test, the read of the entry, the store and dict.clear()   *)
(* are each atomic; a thread switch can fall between any two of them.       *)

\* the data the concurrent steps leave alone
Immutable ==
    UNCHANGED <<index, use_tfidf, vectorizer, tfidf_matrix, element_texts,
                np_argsort, failing, set_order>>

\* hybrid_search up to the statement that touches the cache next: the
\* membership test of line 189 and, on a miss, the computation of the
\* results (192-202), which reads the index alone
HybridTest(query, top_k) ==
    /\ in_flight = NotInFlight
    /\ in_flight' = IF CacheHit(CacheKey(query, top_k))
                    THEN InFlight(190, query, top_k, <<>>)
                    ELSE InFlight(205, query, top_k, HybridResults(query, top_k))
    /\ UNCHANGED <<query_cache, cache_passes, op, ret, alias, invoked, arg,
                   passes, raised>>
    /\ Immutable

\* line 190: return self.query_cache[cache_key]; the subscript raises
\* KeyError when the key is no longer there
HybridRead ==
    LET cache_key == CacheKey(in_flight.query, in_flight.top_k)
    IN  /\ in_flight.line = 190
        /\ IF cache_key \in DOMAIN query_cache
           THEN /\ ret' = query_cache[cache_key]
                /\ raised' = "none"
                /\ alias' = cache_key
                /\ passes' = cache_passes[cache_key]
           ELSE /\ ret' = <<>>
                /\ raised' = "KeyError"
                /\ alias' = NoKey
                /\ passes' = 0
        /\ op' = Call("hybrid_search", in_flight.query, in_flight.top_k, "")
        /\ invoked' = {}
        /\ arg' = <<>>
        /\ in_flight' = NotInFlight
        /\ UNCHANGED <<query_cache, cache_passes>>
        /\ Immutable

\* lines 205-207: store the computed results and return them
HybridStore ==
    LET cache_key == CacheKey(in_flight.query, in_flight.top_k)
    IN  /\ in_flight.line = 205
        /\ query_cache' = DictSet(query_cache, cache_key, in_flight.results)
        /\ cache_passes' = DictSet(cache_passes, cache_key,
                                   IF use_tfidf THEN 1 ELSE 0)
        /\ ret' = in_flight.results
        /\ raised' = "none"
        /\ alias' = cache_key
        /\ passes' = IF use_tfidf THEN 1 ELSE 0
        /\ op' = Call("hybrid_search", in_flight.query, in_flight.top_k, "")
        /\ invoked' = HybridInvokes(in_flight.query)
        /\ arg' = <<>>
        /\ in_flight' = NotInFlight
        /\ Immutable

InitConcurrent ==
    \E elems \in MainIndexes, want \in BOOLEAN :
        \E matrix \in SimTables(Len(elems)) :
            \E argsort \in ArgsortsOf(matrix) :
                /\ Construct(elems, want, TRUE, matrix, argsort, {}, MainOrder)
                /\ Idle

NextConcurrent ==
    \/ \E query \in MainQueries, top_k \in TopKs : HybridTest(query, top_k)
    \/ HybridRead
    \/ HybridStore
    \/ ClearCache

SpecConcurrent == InitConcurrent /\ [][NextConcurrent]_vars

-----------------------------------------------------------------------------
(* SpecCombine: _combine_results on lists of the caller's making *)

CombineIndex == <<ParseConfig, ConfigClass, ConfigMethod>>

Parse == Head(_extract_keywords(QParseConfiguration))

\* results as semantic_search and keyword_search make them: scores 0.4, and
\* 0.6 or 1.5
SemanticPool ==
    {SearchResult(i, Tenths(4), "semantic", <<QConfig>>) : i \in DOMAIN CombineIndex}

KeywordPool ==
    {SearchResult(i, s, "keyword", <<QConfig, Parse>>) :
        i \in DOMAIN CombineIndex, s \in {Tenths(6), Halves(3)}}

CombineOrders == {o \in SetOrders : o[1] \in {QConfig, Parse}}

InitCombine ==
    /\ \E order \in CombineOrders :
          Construct(CombineIndex, FALSE, FALSE, <<>>, <<>>, {}, order)
    /\ op = Call("input", NoQuery, 0, "")
    /\ ret = <<>>
    /\ alias = NoKey
    /\ invoked = {}
    /\ passes = 0
    /\ raised = "none"
    /\ in_flight = NotInFlight
    /\ \E semantic \in DistinctSeqs(SemanticPool, MaxListLen),
          keyword \in SeqsUpTo(KeywordPool, MaxListLen) :
          arg = <<semantic, keyword>>

NextCombine == CombineResults

SpecCombine == InitCombine /\ [][NextCombine]_vars

-----------------------------------------------------------------------------
(* SpecRank: rank_results applied twice, with one query, to a list of the *)
(* caller's making                                                         *)

RankIndex == <<ParseConfig, ConfigError, ConfigClass, ConfigMethod>>

RankPool ==
    {SearchResult(i, s, "keyword", <<QConfig>>) :
        i \in DOMAIN RankIndex, s \in {Tenths(4), One}}

\* lists that hold an element at most once
RankLists ==
    {l \in SeqsUpTo(RankPool, MaxListLen) :
        \A i, j \in DOMAIN l : i # j => l[i].element # l[j].element}

InitRank ==
    /\ Construct(RankIndex, FALSE, FALSE, <<>>, <<>>, {}, MainOrder)
    /\ \E results \in RankLists : Holding(results)

NextRank ==
    \E query \in {QConfig, QParseConfiguration} :
        /\ passes = 1 => query = op.query
        /\ RankResults(query)

SpecRank == InitRank /\ [][NextRank]_vars

-----------------------------------------------------------------------------
(* Claims *)

Descending(results) ==
    \A i, j \in DOMAIN results :
        i < j => ScoreLeq(results[j].score, results[i].score)

\* the boost passes a list has been through when hybrid_search stores it
StoredPasses == IF use_tfidf THEN 1 ELSE 0

C2_HybridIsKeywordWhenUnavailable ==
    (op.name = "hybrid_search" /\ ~use_tfidf)
        => ret = keyword_search(op.query, op.top_k)

(* C3: with the vector backend available, a hybrid_search call that misses *)
(* the cache returns the first top_k entries of rank_results applied to    *)
(* the combination of semantic_search(query, 2 * top_k) and                *)
(* keyword_search(query, 2 * top_k), in descending order of boosted score. *)
C3_MissCombinesRanksAndTruncates ==
    (op.name = "hybrid_search" /\ use_tfidf /\ invoked # {})
        => /\ ret = Take(rank_results(
                           _combine_results(
                              semantic_search(op.query, 2 * op.top_k),
                              keyword_search(op.query, 2 * op.top_k)),
                           op.query),
                         op.top_k)
           /\ Descending(ret)

C3_Witness ==
    /\ op.name = "hybrid_search"
    /\ use_tfidf
    /\ invoked # {}
    /\ Len(ret) = 2
    /\ ret[1].match_type = "hybrid"
    /\ ScoreLt(ret[2].score, ret[1].score)

\* the combined dict once the semantic list and the first n keyword results
\* have gone in
CombinedAfter(semantic, keyword, n) ==
    AddKeyword(AddSemantic(<<>>, semantic), SubSeq(keyword, 1, n))

(* C4: in the combiner, a keyword result whose (codebase, name) identity   *)
(* is already in the combined dict changes that entry alone: its score     *)
(* becomes (existing.score + new.score) / 2 * 1.5, which is three quarters *)
(* of the sum, its match_type becomes hybrid and its matched_terms the     *)
(* union of both term sets; a keyword result whose identity is absent is   *)
(* appended unchanged.                                                     *)
C4_CombinerMerge ==
    op.name = "_combine_results"
        => LET semantic == arg[1]
               keyword  == arg[2]
           IN  /\ ret = CombinedAfter(semantic, keyword, Len(keyword))
               /\ \A n \in DOMAIN keyword :
                    LET d   == CombinedAfter(semantic, keyword, n - 1)
                        d2  == CombinedAfter(semantic, keyword, n)
                        new == keyword[n]
                    IN  IF \E j \in DOMAIN d : Key(d[j]) = Key(new)
                        THEN /\ Len(d2) = Len(d)
                             /\ \A j \in DOMAIN d :
                                  IF Key(d[j]) = Key(new)
                                  THEN /\ ScoreMul(d2[j].score, 4)
                                            = ScoreMul(ScoreAdd(d[j].score, new.score), 3)
                                       /\ d2[j].match_type = "hybrid"
                                       /\ ToSet(d2[j].matched_terms)
                                            = ToSet(d[j].matched_terms)
                                                \cup ToSet(new.matched_terms)
                                       /\ d2[j].element = d[j].element
                                  ELSE d2[j] = d[j]
                        ELSE d2 = Append(d, new)

\* an element found by both strategies with scores 0.4 and 0.6 comes out
\* with 0.75, and a keyword result of another identity is appended as it is
C4_Witness ==
    /\ op.name = "_combine_results"
    /\ Len(arg[1]) = 1
    /\ Len(arg[2]) = 2
    /\ arg[1][1].element = arg[2][1].element
    /\ arg[2][1].score = Tenths(6)
    /\ Len(ret) = 2
    /\ ret[1].score = ScoreDiv(Halves(3), 2)
    /\ ret[1].match_type = "hybrid"
    /\ ToSet(ret[1].matched_terms) = {QConfig, Parse}
    /\ ret[2] = arg[2][2]

\* the position of the result for the element in a list that holds it once
PositionOf(results, element) ==
    CHOOSE i \in DOMAIN results : results[i].element = element

\* the boost rank_results applies to the element at position i of the index
BoostOf(i, query) == Boosted(SearchResult(i, One, "keyword", <<>>), query).score

(* C5 as stated: when rank_results is applied a second time to the list,   *)
(* with the same query, every result that ranked above another after the   *)
(* first pass still ranks above it.                                        *)
C5_SecondPassKeepsOrder ==
    (op.name = "rank_results" /\ passes = 2)
        => \A i, j \in DOMAIN arg :
             i < j => PositionOf(ret, arg[i].element) < PositionOf(ret, arg[j].element)

(* C5, amended: when rank_results is applied a second time to the list,    *)
(* with the same query, a result A that ranked above a result B after the  *)
(* first pass still ranks above B if the boost of A's element for the      *)
(* query is at least the boost of B's element; the second pass multiplies  *)
(* every score by its boost again and re-sorts, so a pair whose lower      *)
(* result has the larger boost can change places.                          *)
C5_SecondPassKeepsOrderOfLargerBoost ==
    (op.name = "rank_results" /\ passes = 2)
        => /\ ret = SortByScore([i \in DOMAIN arg |-> Boosted(arg[i], op.query)])
           /\ \A i, j \in DOMAIN arg :
                (i < j /\ ScoreLeq(BoostOf(arg[j].element, op.query),
                                   BoostOf(arg[i].element, op.query)))
                    => PositionOf(ret, arg[i].element)
                         < PositionOf(ret, arg[j].element)

\* a second pass that keeps two results in place although their boosts differ
C5_Witness ==
    /\ op.name = "rank_results"
    /\ passes = 2
    /\ Len(arg) = 2
    /\ ScoreLt(BoostOf(arg[2].element, op.query), BoostOf(arg[1].element, op.query))
    /\ ret[1].element = arg[1].element
    /\ ScoreLt(arg[1].score, ret[1].score)

\* the elements a list of results refers to
ElementsOf(results) == {results[j].element : j \in DOMAIN results}

\* every element at most once
NoRepeats(results) ==
    \A i, j \in DOMAIN results : i # j => results[i].element # results[j].element

\* the lowercased text fields of an element
FieldsOf(elem) ==
    {lower(elem.name), lower(elem.signature), lower(elem.code)}
        \cup (IF elem.docstring # NoDoc THEN {lower(elem.docstring)} ELSE {})

(* C6: for a query with at least one keyword, every result keyword_search  *)
(* returns has a score above 0, the score of its element against the       *)
(* keywords, and some keyword is a substring of the element's lowercased   *)
(* name, docstring, signature or code.                                     *)
C6_KeywordResultsScorePositive ==
    (op.name = "keyword_search" /\ _extract_keywords(op.query) # <<>>)
        => \A j \in DOMAIN ret :
             LET elem     == index[ret[j].element]
                 keywords == _extract_keywords(op.query)
             IN  /\ ScoreLt(Zero, ret[j].score)
                 /\ ret[j].score = _score_element_keywords(elem, keywords)
                 /\ \E n \in DOMAIN keywords :
                      \E field \in FieldsOf(elem) : Contains(keywords[n], field)

\* a search that left out an element of score 0 although top_k had room
C6_Witness ==
    /\ op.name = "keyword_search"
    /\ _extract_keywords(op.query) # <<>>
    /\ Len(ret) = 1
    /\ op.top_k = 2
    /\ Len(index) = 2

\* the class-typed positions of the index
ClassIds == {i \in DOMAIN index : index[i].type = "class"}

\* results are the first n class-typed elements in index order, scored 1.0
FirstClasses(results, n) ==
    /\ Len(results) = n
    /\ \A j \in DOMAIN results :
         /\ results[j].element \in ClassIds
         /\ Cardinality({c \in ClassIds : c < results[j].element}) = j - 1
         /\ results[j].score = One
         /\ results[j].match_type = "type"
         /\ results[j].matched_terms = <<>>

VectorAnswer ==
    /\ op.name = "semantic_search"
    /\ use_tfidf
    /\ vectorizer # "None"
    /\ op.query \notin failing

(* C8: in semantic_search answered from the TF-IDF matrix, of two elements *)
(* with equal similarity to the query the one indexed first comes first in *)
(* the results and is the one kept when top_k has room for one of them.    *)
C8_TiesKeepIndexOrder ==
    VectorAnswer
        => \A i, j \in DOMAIN index :
             (/\ i < j
              /\ tfidf_matrix[op.query][i] = tfidf_matrix[op.query][j]
              /\ j \in ElementsOf(ret))
                => /\ i \in ElementsOf(ret)
                   /\ PositionOf(ret, i) < PositionOf(ret, j)

(* C9: semantic_search answered from the TF-IDF matrix returns the top_k   *)
(* elements of highest similarity among those of similarity above 0, in    *)
(* descending order of similarity: every result carries its element's      *)
(* similarity as score, above 0, and match_type semantic, no element left  *)
(* out has a similarity above a returned one, and an element of similarity *)
(* 0 is not returned even when fewer than top_k elements are.              *)
C9_TopPositiveSimilarities ==
    VectorAnswer
        => LET similarities == tfidf_matrix[op.query]
               positive == {i \in DOMAIN index : ScoreLt(Zero, similarities[i])}
           IN  /\ NoRepeats(ret)
               /\ ElementsOf(ret) \subseteq positive
               /\ Len(ret) = Min(op.top_k, Cardinality(positive))
               /\ Descending(ret)
               /\ \A j \in DOMAIN ret :
                    /\ ret[j].score = similarities[ret[j].element]
                    /\ ScoreLt(Zero, ret[j].score)
                    /\ ret[j].match_type = "semantic"
               /\ \A i \in positive \ ElementsOf(ret) :
                    \A j \in DOMAIN ret : ScoreLeq(similarities[i], ret[j].score)

\* one element returned, and one of similarity 0 left out though top_k is 2
C9_Witness ==
    /\ VectorAnswer
    /\ op.top_k = 2
    /\ Len(index) = 2
    /\ Len(ret) = 1
    /\ \E i \in DOMAIN index : tfidf_matrix[op.query][i] = Zero

(* C10: keyword_search returns the elements of non-zero keyword score in   *)
(* descending order of score, elements of equal score in index order, cut  *)
(* to the first top_k.                                                     *)
C10_KeywordSortedStableTruncated ==
    op.name = "keyword_search"
        => LET keywords == _extract_keywords(op.query)
               Score(i) == _score_element_keywords(index[i], keywords)
               nonzero  == {i \in DOMAIN index : Score(i) # Zero}
               Before(i, j) == \/ ScoreLt(Score(j), Score(i))
                               \/ (Score(i) = Score(j) /\ i < j)
           IN  /\ NoRepeats(ret)
               /\ ElementsOf(ret) \subseteq nonzero
               /\ Len(ret) = Min(op.top_k, Cardinality(nonzero))
               /\ \A j \in DOMAIN ret : ret[j].score = Score(ret[j].element)
               /\ \A i, j \in DOMAIN ret :
                    i < j => Before(ret[i].element, ret[j].element)
               /\ \A i \in nonzero \ ElementsOf(ret) :
                    \A j \in DOMAIN ret : Before(ret[j].element, i)

\* two elements of equal score, and top_k = 1 keeps the one indexed first
C10_Witness ==
    /\ op.name = "keyword_search"
    /\ op.top_k = 1
    /\ Len(ret) = 1
    /\ ret[1].element = 1
    /\ Len(index) = 2
    /\ _score_element_keywords(index[2], _extract_keywords(op.query)) = ret[1].score

\* 7.0 = 3.0 + 2.0 + 1.5 + 0.5, the four field weights together
AllFieldWeights ==
    ScoreAdd(ScoreAdd(NameWeight, DocstringWeight),
             ScoreAdd(SignatureWeight, CodeWeight))

(* C11: the keyword score of an element is at most 7.0 times the number of *)
(* distinct keywords extracted from the query, a keyword repeated in the   *)
(* query adding each field weight once only.                               *)
C11_ScoreBoundedByDistinctKeywords ==
    op.name = "keyword_search"
        => \A j \in DOMAIN ret :
             ScoreLeq(ret[j].score,
                      ScoreMul(AllFieldWeights,
                               Cardinality(ToSet(_extract_keywords(op.query)))))

\* the terms are substrings of some text field of the element, each once
TermsContributed(r) ==
    /\ \A n \in DOMAIN r.matched_terms :
         \E field \in FieldsOf(index[r.element]) :
            Contains(r.matched_terms[n], field)
    /\ \A m, n \in DOMAIN r.matched_terms :
         m # n => r.matched_terms[m] # r.matched_terms[n]

(* C12: in every result of keyword_search, semantic_search, hybrid_search, *)
(* search_by_type and search_by_codebase, matched_terms holds only query   *)
(* terms that are substrings of one of the element's text fields, and      *)
(* holds no term twice.                                                    *)
C12_MatchedTermsContributedOnce ==
    op.name \in {"keyword_search", "semantic_search", "hybrid_search",
                 "search_by_type", "search_by_codebase"}
        => \A j \in DOMAIN ret : TermsContributed(ret[j])

\* the results handed to the combiner that have the identity k, semantic
\* ones first
InputsOf(k) == SelectSeq(arg[1] \o arg[2], LAMBDA r : Key(r) = k)

\* the scores of the results merged one after the other by
\* (existing + new) / 2 * 1.5
RECURSIVE MergedScore(_)
MergedScore(results) ==
    IF Len(results) = 1 THEN results[1].score
    ELSE ScoreMulDiv(ScoreDiv(ScoreAdd(MergedScore(SubSeq(results, 1, Len(results) - 1)),
                                       results[Len(results)].score),
                              2),
                     3, 2)

(* C13: in the combiner, input results that share a (codebase, name)       *)
(* identity, two results of the semantic list included, are merged: the    *)
(* entry that comes out for the identity carries the merge of all their    *)
(* scores, and no score is dropped by a later result overwriting an        *)
(* earlier one.                                                            *)
C13_SharedIdentityMerged ==
    op.name = "_combine_results"
        => \A j \in DOMAIN ret :
             ret[j].score = MergedScore(InputsOf(Key(ret[j])))

\* how many results refer to the element at position i of the index
ResultsFor(i) == Cardinality({j \in DOMAIN ret : ret[j].element = i})

(* C14: search_by_name(name, exact=True) returns one result for each index *)
(* element whose name equals the query when both are lowercased, and none  *)
(* for any other element; every result has score 1.0 and match_type exact. *)
C14_ExactNameLookup ==
    (op.name = "search_by_name" /\ op.filter = "exact")
        => /\ \A i \in DOMAIN index :
                ResultsFor(i) = IF lower(index[i].name) = lower(op.query)
                                THEN 1 ELSE 0
           /\ \A j \in DOMAIN ret :
                /\ ret[j].score = One
                /\ ret[j].match_type = "exact"

\* "config" finds the element named Config and not parse_config beside it
C14_Witness ==
    /\ op.name = "search_by_name"
    /\ op.filter = "exact"
    /\ Len(index) = 2
    /\ Len(ret) = 1
    /\ index[ret[1].element].name # op.query
    /\ \A i \in DOMAIN index : Contains(lower(op.query), lower(index[i].name))

(* C15: search_by_name(name, exact=False) returns the elements whose       *)
(* lowercased name contains the lowercased query, each once, with          *)
(* match_type name and score len(query) / len(element name), in descending *)
(* order of score; every score lies between 0 and 1 and is 1.0 only when   *)
(* the name equals the query case-insensitively.                           *)
C15_SubstringNameLookup ==
    (op.name = "search_by_name" /\ op.filter = "substring")
        => /\ \A i \in DOMAIN index :
                ResultsFor(i) = IF Contains(lower(op.query), lower(index[i].name))
                                THEN 1 ELSE 0
           /\ Descending(ret)
           /\ \A j \in DOMAIN ret :
                LET elem == index[ret[j].element]
                IN  /\ ret[j].match_type = "name"
                    /\ ScoreMul(ret[j].score, Len(elem.name)) = Dec(Len(op.query), 0)
                    /\ ScoreLeq(Zero, ret[j].score)
                    /\ ScoreLeq(ret[j].score, One)
                    /\ ret[j].score = One => lower(elem.name) = lower(op.query)

(* C16: a semantic_search call returns what keyword_search returns for    *)
(* the same query and top_k whenever the vector backend is unavailable and *)
(* whenever the vector query raises; no exception reaches the caller; the  *)
(* call leaves the backend as it was, so that after a failed vector query  *)
(* a call whose vector query succeeds is answered from the TF-IDF matrix.  *)
C16_SemanticFallsBackToKeyword ==
    [][op'.name = "semantic_search"
       => /\ raised' = "none"
          /\ use_tfidf' = use_tfidf
          /\ vectorizer' = vectorizer
          /\ tfidf_matrix' = tfidf_matrix
          /\ (~use_tfidf \/ vectorizer = "None" \/ op'.query \in failing)
                => ret' = keyword_search(op'.query, op'.top_k)
          /\ (use_tfidf /\ vectorizer # "None" /\ op'.query \notin failing)
                => \A j \in DOMAIN ret' : ret'[j].match_type = "semantic"]_vars

\* a failed vector query answered with keyword results, the backend still on
C16_Witness ==
    /\ op.name = "semantic_search"
    /\ use_tfidf
    /\ op.query \in failing
    /\ failing # Queries
    /\ ret # <<>>
    /\ \A j \in DOMAIN ret : ret[j].match_type = "keyword"

(* C17: clear_cache leaves no key in the query cache, whatever it held,   *)
(* so that a hybrid_search that follows it computes its result anew, and   *)
(* leaves the index, use_tfidf, the vectorizer, the TF-IDF matrix and the  *)
(* element texts unchanged.                                                *)
C17_ClearCacheEmptiesCacheOnly ==
    [][/\ op'.name = "clear_cache"
          => /\ query_cache' = <<>>
             /\ UNCHANGED <<index, use_tfidf, vectorizer, tfidf_matrix,
                            element_texts>>
       /\ (op.name = "clear_cache" /\ op'.name = "hybrid_search")
          => /\ invoked' # {}
             /\ ret' = HybridResults(op'.query, op'.top_k)]_vars

\* clear_cache has just returned on a searcher with two elements and a fitted
\* vectorizer: the cache is empty and the index artifacts are still there
C17_Witness ==
    /\ op.name = "clear_cache"
    /\ query_cache = <<>>
    /\ use_tfidf
    /\ vectorizer = "fitted"
    /\ Len(index) = 2

(* C18: the set of keys of the query cache changes only by a hybrid_search *)
(* that misses, which adds its own (query, top_k) key, also when its       *)
(* result is empty, and by clear_cache, which removes them all; a stored   *)
(* key stays until the next clear_cache; semantic_search, keyword_search,  *)
(* search_by_name, search_by_type and search_by_codebase leave the cache   *)
(* as it is and rank_results leaves its keys as they are.                  *)
C18_CacheKeysChangeByHybridAndClear ==
    [][/\ op'.name = "hybrid_search"
          => DOMAIN query_cache'
               = DOMAIN query_cache \cup {CacheKey(op'.query, op'.top_k)}
       /\ op'.name = "clear_cache" => DOMAIN query_cache' = {}
       /\ op'.name \in {"semantic_search", "keyword_search", "search_by_name",
                        "search_by_type", "search_by_codebase"}
          => query_cache' = query_cache
       /\ op'.name = "rank_results" => DOMAIN query_cache' = DOMAIN query_cache
       /\ op'.name # "clear_cache" => DOMAIN query_cache \subseteq DOMAIN query_cache']_vars

\* an empty result stored under its key
C18_Witness ==
    /\ op.name = "hybrid_search"
    /\ ret = <<>>
    /\ invoked # {}
    /\ CacheKey(op.query, op.top_k) \in DOMAIN query_cache
    /\ Cardinality(DOMAIN query_cache) > 1

(* C19: no query operation and no clear_cache changes the index: after any *)
(* sequence of calls it holds the elements it was constructed with, in the *)
(* same order and with the same field values.                              *)
C19_IndexNeverChanges ==
    [][index' = index]_vars

\* a list re-ranked twice over an index of two elements
C19_Witness ==
    /\ op.name = "rank_results"
    /\ passes = 2
    /\ Len(index) = 2
    /\ Len(ret) = 2

(* C20: semantic_search, keyword_search, hybrid_search, search_by_name,    *)
(* search_by_type and search_by_codebase, on an index whose elements have  *)
(* non-empty names, return a possibly empty sequence for every query, the  *)
(* empty one and those made of stop words included, and raise nothing.     *)
C20_QueriesNeverRaise ==
    op.name \in {"semantic_search", "keyword_search", "hybrid_search",
                 "search_by_name", "search_by_type", "search_by_codebase"}
        => /\ raised = "none"
           /\ DOMAIN ret = 1..Len(ret)

\* a failed vector query on the empty query, answered with no results
C20_Witness ==
    /\ op.name = "semantic_search"
    /\ use_tfidf
    /\ op.query \in failing
    /\ op.query = QEmpty
    /\ ret = <<>>
    /\ raised = "none"

\* the operations that take a top_k
TopKOperations ==
    {"semantic_search", "keyword_search", "hybrid_search", "search_by_type",
     "search_by_codebase"}

\* the positions the last lookup by type or by codebase filters the index to
FilteredIds ==
    {i \in DOMAIN index :
        IF op.name = "search_by_type" THEN index[i].type = op.filter
        ELSE index[i].codebase = op.filter}

Times(score, condition, num, den) ==
    IF condition THEN ScoreMulDiv(score, num, den) ELSE score

\* the score times the product of the factors that apply to the element,
\* the factors taken from the last to the first
TimesFactors(score, elem, query) ==
    LET q     == lower(query)
        exact == q = lower(elem.name)
        s1 == Times(score, elem.codebase \in {"dspy", "dspy_cli"}, 11, 10)
        s2 == Times(s1, elem.type \in {"class", "function"}, 6, 5)
        s3 == Times(s2, elem.docstring # NoDoc /\ Contains(q, lower(elem.docstring)),
                    13, 10)
        s4 == Times(s3, ~exact /\ Contains(q, lower(elem.name)), 3, 2)
    IN  Times(s4, exact, 2, 1)

(* C22: rank_results multiplies each result's score by the product of the  *)
(* factors that apply - 2.0 if the name equals the query without regard to *)
(* case, otherwise 1.5 if the name contains the query; 1.3 if there is a   *)
(* docstring that contains the query; 1.2 if the type is class or          *)
(* function; 1.1 if the codebase is dspy or dspy_cli - and leaves the      *)
(* other fields alone; the list comes back in descending order of final    *)
(* score, results of equal final score in their prior order.               *)
C22_BoostIsProductThenStableSort ==
    op.name = "rank_results"
        => /\ Len(ret) = Len(arg)
           /\ Descending(ret)
           /\ \A i \in DOMAIN arg :
                \E j \in DOMAIN ret :
                    /\ ret[j].element = arg[i].element
                    /\ ret[j].score = TimesFactors(arg[i].score,
                                                   index[arg[i].element], op.query)
                    /\ ret[j].match_type = arg[i].match_type
                    /\ ret[j].matched_terms = arg[i].matched_terms
           /\ \A i, k \in DOMAIN arg :
                (/\ i < k
                 /\ TimesFactors(arg[i].score, index[arg[i].element], op.query)
                      = TimesFactors(arg[k].score, index[arg[k].element], op.query))
                    => PositionOf(ret, arg[i].element)
                         < PositionOf(ret, arg[k].element)

\* a class named as the query, with a docstring that holds it, in dspy:
\* 1.0 becomes 2.0 * 1.3 * 1.2 * 1.1 = 3.432 and the result moves to the front
C22_Witness ==
    /\ op.name = "rank_results"
    /\ passes = 1
    /\ Len(arg) = 2
    /\ index[arg[2].element] = ConfigClass
    /\ arg[2].score = One
    /\ ret[1].element = arg[2].element
    /\ ret[1].score = Dec(3, 432 * (FracUnits \div 1000))

\* the results with the given match_type in place of their own
Tagged(results, match_type) ==
    [j \in DOMAIN results |-> [results[j] EXCEPT !.match_type = match_type]]

(* C23: search_by_type and search_by_codebase with a query return only     *)
(* elements of the type (of the codebase) whose keyword score against the  *)
(* query is not zero, with the score keyword_search gives them, in         *)
(* descending order of score, cut to top_k, with match_type type           *)
(* (codebase): the results are those keyword_search finds in the whole     *)
(* index, the elements outside the filter left out, the first top_k of     *)
(* them.                                                                   *)
C23_QueriedLookupIsFilteredKeywordSearch ==
    (op.name \in {"search_by_type", "search_by_codebase"} /\ op.query # NoQuery)
        => LET keywords == _extract_keywords(op.query)
               all      == keyword_search(op.query, Len(index))
               kept     == SelectSeq(all, LAMBDA r : r.element \in FilteredIds)
           IN  /\ ret = Tagged(Take(kept, op.top_k),
                               IF op.name = "search_by_type" THEN "type"
                               ELSE "codebase")
               /\ Descending(ret)
               /\ \A j \in DOMAIN ret :
                    /\ ret[j].element \in FilteredIds
                    /\ ret[j].score = _score_element_keywords(index[ret[j].element],
                                                              keywords)
                    /\ ret[j].score # Zero

\* two classes that hold the keyword: the second scores higher and is the
\* one returned for top_k = 1
C23_Witness ==
    /\ op.name = "search_by_type"
    /\ op.query = QConfig
    /\ op.top_k = 1
    /\ Cardinality(FilteredIds) = 2
    /\ Len(ret) = 1
    /\ ret[1].element = 2

\* letters and digits: the word characters other than the underscore
AlphaNumeric == WordChars \ {"_"}

\* the maximal runs of characters of the set in s, as pairs of positions
Runs(s, chars) ==
    {r \in (DOMAIN s) \X (DOMAIN s) :
        /\ r[1] <= r[2]
        /\ \A i \in r[1]..r[2] : s[i] \in chars
        /\ r[1] > 1 => s[r[1] - 1] \notin chars
        /\ r[2] < Len(s) => s[r[2] + 1] \notin chars}

\* the tokens of s made of characters of the set, from left to right
Tokens(s, chars) ==
    [k \in 1..Cardinality(Runs(s, chars)) |->
        LET r == CHOOSE x \in Runs(s, chars) :
                    Cardinality({y \in Runs(s, chars) : y[1] < x[1]}) = k - 1
        IN  SubSeq(s, r[1], r[2])]

(* C24: the keywords of a query are exactly the lowercased alphanumeric    *)
(* word tokens of the query that are longer than 2 characters and are not  *)
(* stop words, in the order of the query; they are the terms keyword_search *)
(* matches with, and for a query of short tokens and stop words alone      *)
(* keyword_search returns the empty sequence and scores no element.        *)
C24_KeywordsAreAlphanumericTokens ==
    op.name = "keyword_search"
        => LET expected ==
                 SelectSeq(Tokens(lower(op.query), AlphaNumeric),
                           LAMBDA w : Len(w) > 2 /\ w \notin stop_words)
           IN  /\ _extract_keywords(op.query) = expected
               /\ \A j \in DOMAIN ret : ret[j].matched_terms = expected
               /\ expected = <<>>
                    => ret = <<>> /\ "_score_element_keywords" \notin invoked

\* the text begins with the element's name and holds its docstring, if
\* any, and its signature
SynthesizedFrom(text, elem) ==
    /\ SubSeq(text, 1, Len(elem.name)) = elem.name
    /\ elem.docstring # NoDoc => Contains(elem.docstring, text)
    /\ Contains(elem.signature, text)

\* the index is built: a fitted vectorizer, a matrix row and a text for
\* each element, the texts in index order
IndexBuilt ==
    /\ vectorizer = "fitted"
    /\ tfidf_matrix # <<>>
    /\ \A q \in DOMAIN tfidf_matrix : DOMAIN tfidf_matrix[q] = DOMAIN index
    /\ Len(element_texts) = Len(index)
    /\ \A i \in DOMAIN index : SynthesizedFrom(element_texts[i], index[i])

(* C25: use_tfidf is decided by the constructor and no query operation and *)
(* no clear_cache changes it; whenever it is true the vectorizer is fitted, *)
(* the matrix is built and element_texts holds one synthesized document    *)
(* per index element, in index order; after a failed index build it is     *)
(* false, and every semantic_search then returns what keyword_search       *)
(* returns.                                                                *)
C25_AvailabilityDecidedAtConstruction ==
    /\ [][use_tfidf' = use_tfidf]_vars
    /\ [](use_tfidf => IndexBuilt)
    /\ [](vectorizer = "unfitted" => ~use_tfidf)
    /\ []((op.name = "semantic_search" /\ ~use_tfidf)
            => /\ ret = keyword_search(op.query, op.top_k)
               /\ "keyword_search" \in invoked)

\* fitting failed on an index of two elements, and semantic_search answers
\* with the keyword results
C25_Witness ==
    /\ vectorizer = "unfitted"
    /\ Len(index) = 2
    /\ op.name = "semantic_search"
    /\ "keyword_search" \in invoked
    /\ Len(ret) = 2

\* the elements the vector-space strategy produces for the candidates of the
\* last hybrid_search: those of the results semantic_search made from the
\* TF-IDF matrix
VectorFound ==
    LET results == semantic_search(op.query, 2 * op.top_k)
    IN  {results[j].element :
            j \in {n \in DOMAIN results : results[n].match_type = "semantic"}}

\* the elements the keyword strategy produces for the same candidates
KeywordFound == ElementsOf(keyword_search(op.query, 2 * op.top_k))

(* C26: a result hybrid_search returns with match_type hybrid is for an    *)
(* element that both the vector-space strategy and the keyword strategy    *)
(* produced for the query; an element the keyword scorer alone found is    *)
(* not tagged hybrid, also when the vector query fails and when elements   *)
(* of the index share a (codebase, name).                                  *)
C26_HybridTagMeansBothStrategies ==
    (op.name = "hybrid_search" /\ invoked # {})
        => \A j \in DOMAIN ret :
             ret[j].match_type = "hybrid"
                => /\ use_tfidf
                   /\ ret[j].element \in VectorFound
                   /\ ret[j].element \in KeywordFound

(* C27: when the combiner merges a keyword result into the semantic result *)
(* of the same identity, the merged score is not below the semantic score  *)
(* and not below the keyword score.                                        *)
C27_MergedScoreNotBelowInputs ==
    op.name = "_combine_results"
        => LET semantic == arg[1]
               keyword  == arg[2]
           IN  \A n \in DOMAIN keyword :
                 LET d   == CombinedAfter(semantic, keyword, n - 1)
                     d2  == CombinedAfter(semantic, keyword, n)
                     new == keyword[n]
                 IN  \A j \in DOMAIN d :
                       (Key(d[j]) = Key(new) /\ d[j].match_type = "semantic")
                          => /\ ScoreLeq(d[j].score, d2[j].score)
                             /\ ScoreLeq(new.score, d2[j].score)

(* C28: once hybrid_search has returned a sequence for a key, no operation *)
(* other than clear_cache - rank_results on the returned sequence and      *)
(* hybrid_search with another key included - changes what a later          *)
(* hybrid_search with that key returns: the scores, match types, order and *)
(* length of the cached entry stay as they are.                            *)
C28_CachedEntryIsolated ==
    [][op'.name # "clear_cache"
        => \A key \in DOMAIN query_cache :
             /\ key \in DOMAIN query_cache'
             /\ query_cache'[key] = query_cache[key]]_vars

(* C29: a sequence returned by hybrid_search holds at most one result per  *)
(* (codebase, name) identity, with the vector backend available and with   *)
(* it unavailable, also on an index in which elements share an identity.   *)
C29_OneResultPerIdentity ==
    op.name = "hybrid_search"
        => \A i, j \in DOMAIN ret : i # j => Key(ret[i]) # Key(ret[j])

(* C30: with hybrid_search and clear_cache run by concurrent callers and   *)
(* no lock, hybrid_search returns a result sequence in every interleaving: *)
(* it lets no exception through, also when a clear_cache runs between its  *)
(* membership test and its read of the cached entry.                       *)
C30_ConcurrentHybridSearchReturns ==
    op.name = "hybrid_search" => raised = "none"

=============================================================================
